---- MODULE Spec2Model ----
(***************************************************************************)
(* BulkheadMiddleware (src/fastMiddleware/bulkhead.py): the admission gate  *)
(* of the bulkhead pattern, as a state machine over concurrent requests.    *)
(*                                                                          *)
(* dispatch() runs on one asyncio event loop, so the code between two       *)
(* awaits is one atomic step.  Its awaits are                               *)
(*     line  96   await call_next(request)          (excluded path)         *)
(*     line 114   await asyncio.wait_for(semaphore.acquire(), timeout)      *)
(*     line 130   await call_next(request)                                  *)
(* asyncio.Semaphore keeps a counter and a FIFO of waiters; release() hands *)
(* the permit to the first waiter whose future is still pending, and the    *)
(* waiter leaves the FIFO only when its task runs again.  asyncio.wait_for  *)
(* awaits the acquire in the calling task (CPython 3.12 and later) or in a  *)
(* task of its own (CPython 3.11 and earlier): `inline` says which one the  *)
(* interpreter does, and both are modelled.  The timeout is positive, so a  *)
(* timeout can only end a wait that is suspended on the semaphore.          *)
(***************************************************************************)
EXTENDS Integers, Sequences, FiniteSets, TLC

\* ------------------------------------------------------------------ bounds
NumRequests == 3      \* request slots that can be in the gate at once
MaxConcurrent == 2    \* max_concurrent is 1 or MaxConcurrent
MaxWaiting == 2       \* max_waiting is 0, 1 or MaxWaiting

Requests == 1..NumRequests

\* ------------------------------------------------------------ configuration
\* exclude_paths handed to FastMVCMiddleware.__init__ (bulkhead.py line 71)
exclude_paths == {"/health"}
Paths == {"/a", "/b", "/health"}

\* path_limits of BulkheadConfig: {"/a": 1, "/b": 1}, or {"/a": 1} so that "/b"
\* falls back to max_concurrent
PathLimitsChoices == { ("/a" :> 1) @@ ("/b" :> 1), ("/a" :> 1) }

BulkheadConfig ==
  [max_concurrent : {1, MaxConcurrent},
   max_waiting    : {0, 1, MaxWaiting},
   per_path       : BOOLEAN,
   path_limits    : PathLimitsChoices]

\* the configurations the gate is built with
Configs ==
  {c \in BulkheadConfig : c.per_path \/ c.path_limits = ("/a" :> 1) @@ ("/b" :> 1)}

\* ---------------------------------------------------------------- responses
NoResult ==
  [kind |-> "none", status_code |-> 0, content |-> {}, headers |-> {}]
OverloadResponse ==
  [kind |-> "response", status_code |-> 503,
   content |-> {<<"error", "true">>, <<"message", "Service overloaded">>,
                <<"retry_after", "5">>},
   headers |-> {<<"Retry-After", "5">>}]
\* mutant: the timeout answer built like the overload answer, with the header
TimeoutResponse_retry_after ==
  [kind |-> "response", status_code |-> 503,
   content |-> {<<"error", "true">>,
                <<"message", "Request timeout waiting for resources">>},
   headers |-> {<<"Retry-After", "5">>}]
\* mutant: the timeout answered with the overload response
TimeoutResponse_overload ==
  [kind |-> "response", status_code |-> 503,
   content |-> {<<"error", "true">>, <<"message", "Service overloaded">>,
                <<"retry_after", "5">>},
   headers |-> {<<"Retry-After", "5">>}]
TimeoutResponse ==
  [kind |-> "response", status_code |-> 503,
   content |-> {<<"error", "true">>,
                <<"message", "Request timeout waiting for resources">>},
   headers |-> {}]
\* what call_next produces: a response, an exception of the handler, or the
\* CancelledError of a cancelled task
DownstreamResponse ==
  [kind |-> "response", status_code |-> 200, content |-> {<<"body", "OK">>},
   headers |-> {}]
DownstreamError ==
  [kind |-> "exception", status_code |-> 0,
   content |-> {<<"type", "RuntimeError">>}, headers |-> {}]
\* the handler itself raises asyncio.TimeoutError
DownstreamTimeoutError ==
  [kind |-> "exception", status_code |-> 0,
   content |-> {<<"type", "TimeoutError">>}, headers |-> {}]
CancelledError ==
  [kind |-> "exception", status_code |-> 0,
   content |-> {<<"type", "CancelledError">>}, headers |-> {}]

VARIABLES
  config,           \* self.config
  inline,           \* TRUE: wait_for awaits the acquire in the calling task
  waiting,          \* self._waiting
  semaphore,        \* self._semaphore
  path_semaphores,  \* self._path_semaphores
  ready,            \* acquire tasks created by wait_for and not yet started
  pc,               \* where each request is in dispatch(); call_next runs
                    \* for it exactly while it is "skipped" or "executing"
  request_semaphore,\* dispatch()'s local `semaphore` (line 98): the semaphore
                    \* the request waits for or holds, by its key
  returned,         \* what dispatch() gave its caller in the last step and the
                    \* line it left at, if it returned in that step
  contended         \* the requests in the wait that found, when they arrived,
                    \* a permit in their pool that an earlier request was
                    \* queued for or about to take

bulkhead_vars ==
  <<config, inline, waiting, semaphore, path_semaphores, ready, pc,
    request_semaphore, returned, contended>>

\* ------------------------------------------- GracefulShutdownMiddleware, state
\* (src/fastMiddleware/graceful_shutdown.py)  self._lock is never held across
\* an await, so "async with self._lock" never suspends and the code around it
\* is one atomic step; self._drain_event is never used.
VARIABLES
  shutting_down,    \* self._shutting_down
  in_flight,        \* self._in_flight
  serving,          \* the requests inside "await call_next(request)", line 128
  shutdown_pc,      \* where shutdown() is: "idle" (not running), "draining"
                    \* (in wait_for), "drain_done" (_wait_for_drain has
                    \* returned in its own task, wait_for not yet)
  shutdown_result,  \* how the last shutdown() returned: "drained" when
                    \* _wait_for_drain returned, "timeout" when wait_for
                    \* timed out, "none" before that
  responded         \* what the last step of a dispatch() gave its caller

shutdown_vars ==
  <<shutting_down, in_flight, serving, shutdown_pc, shutdown_result,
    responded>>

\* GracefulShutdownMiddleware.__init__, lines 64-65
GracefulShutdownInit ==
  /\ shutting_down = FALSE
  /\ in_flight = 0
  /\ serving = {}
  /\ shutdown_pc = "idle"
  /\ shutdown_result = "none"
  /\ responded = NoResult

\* the state of the other middlewares, which a step of the bulkhead leaves
\* as it is
\* ------------------------------------------------- ABTestMiddleware, state
\* A string is the sequence of its characters, so that splitting and joining
\* are computed on it.
NoCookie == << >>

\* no assignments: an empty dict, kept as the sequence of its items
EmptyDict == << >>

VARIABLES
  experiments,      \* self.config.experiments, the list as configured
  sticky,           \* self.config.sticky
  md5,              \* int(md5(hash_input).hexdigest(), 16) % 10000, in units
                    \* of 10000 / Scale: some function of the hash input
  ab_pc,            \* where the client's request is: "idle" (none),
                    \* "handling" (inside call_next with the variants set),
                    \* "passing" (inside call_next, path skipped)
  ab_as_issued,     \* the request being handled carried the cookie exactly
                    \* as the last response had set it
  ab_variants,      \* _ab_ctx and request.state.ab_variants of the request
                    \* being handled
  ab_issued         \* the last Set-Cookie of ab_variants: << >> when none
                    \* yet, else <<[value, assignments]>>

ab_vars ==
  <<experiments, sticky, md5, ab_pc, ab_as_issued, ab_variants, ab_issued>>

\* a client that has made no request yet
NoRequestYet ==
  /\ ab_pc = "idle"
  /\ ab_as_issued = FALSE
  /\ ab_variants = EmptyDict
  /\ ab_issued = << >>

\* ABTestMiddleware(app): ABTestConfig() has no experiments and is sticky
ABTestDefault ==
  /\ experiments = << >>
  /\ sticky = TRUE
  /\ md5 = << >>
  /\ NoRequestYet

\* ----------------------------------------------- CSPReportMiddleware, state
VARIABLES
  csp_config,       \* self.config: store_reports, max_stored, log_reports
  reports,          \* self._reports; a report is known by its number
  csp_received,     \* how many reports have been taken in so far
  csp_cleared_at,   \* csp_received at the last clear_reports(), 0 if none
  csp_responded     \* what the last request to the middleware was given

csp_vars ==
  <<csp_config, reports, csp_received, csp_cleared_at, csp_responded>>

\* CSPReportMiddleware.__init__, line 75, with the given configuration
CSPReportNew(c) ==
  /\ csp_config = c
  /\ reports = << >>
  /\ csp_received = 0
  /\ csp_cleared_at = 0
  /\ csp_responded = [kind |-> "none", status_code |-> 0, error |-> ""]

\* CSPReportMiddleware(app): CSPReportConfig(), lines 32-35
CSPReportDefault ==
  CSPReportNew([store_reports |-> FALSE, max_stored |-> 100,
                log_reports |-> TRUE])

\* --------------------------------------------- FeatureFlagMiddleware, state
VARIABLES
  flag_config,      \* self.config: flags, header_overrides, and the dict
                    \* flag_provider returns for the request, << >> when
                    \* flag_provider is None
  flag_pc,          \* "idle", or "handling": inside call_next with the flags
  flag_request,     \* the X-Feature-Flags header of the request handled
  feature_flags,    \* request.state.feature_flags of the request handled
  features_enabled  \* X-Features-Enabled of the last response, << >> if
                    \* the header was not set

flag_vars ==
  <<flag_config, flag_pc, flag_request, feature_flags, features_enabled>>

\* no request is being handled
NoFlagRequest ==
  /\ flag_pc = "idle"
  /\ flag_request = << >>
  /\ feature_flags = << >>

\* FeatureFlagMiddleware.__init__, lines 146-150, with the configuration
FeatureFlagNew(c) ==
  /\ flag_config = c
  /\ NoFlagRequest
  /\ features_enabled = << >>

\* FeatureFlagMiddleware(app): FeatureFlagConfig(), lines 82-86
FeatureFlagDefault ==
  FeatureFlagNew([flags |-> << >>, header_overrides |-> FALSE,
                  flag_provider |-> << >>])

other_middlewares == <<shutdown_vars, ab_vars, csp_vars, flag_vars>>

vars == <<bulkhead_vars, other_middlewares>>

\* --------------------------------------------------------- asyncio.Semaphore
Semaphore(value) == [value |-> value, waiters |-> <<>>]

\* Semaphore.locked(): no permit, or somebody is already in the FIFO
locked(s) == s.value = 0 \/ Len(s.waiters) > 0

Remove(seq, r) == SelectSeq(seq, LAMBDA x : x # r)

\* a pair of one semaphore and the requests' positions: waking a waiter
\* changes both
Pending(st) ==
  {i \in 1..Len(st.sem.waiters) : st.pc[st.sem.waiters[i]] = "queued"}

\* Semaphore._wake_up_next(): give a permit to the first pending waiter
wake_up_next(st) ==
  IF Pending(st) = {} THEN st
  ELSE LET i == CHOOSE j \in Pending(st) : \A k \in Pending(st) : j <= k
           w == st.sem.waiters[i]
       IN [sem |-> [st.sem EXCEPT !.value = @ - 1],
           pc  |-> [st.pc EXCEPT ![w] = "granted"]]

RECURSIVE wake_all(_)
\* "while self._value > 0: if not self._wake_up_next(): break"
wake_all(st) ==
  IF st.sem.value > 0 /\ Pending(st) # {} THEN wake_all(wake_up_next(st))
  ELSE st

\* what acquire() does for the other waiters when this waiter leaves the FIFO
wake_after(st) ==
  IF inline THEN wake_all(st)
  ELSE IF st.sem.value > 0 THEN wake_up_next(st) ELSE st

\* Semaphore.release()
release(st) == wake_up_next([st EXCEPT !.sem.value = @ + 1])

\* ------------------------------------------------------- BulkheadMiddleware
\* FastMVCMiddleware.should_skip(request): the path is one of exclude_paths
should_skip(p) == p \in exclude_paths

\* mutant: a path with a trailing slash gets the limit of the path without it
path_limit_normalised(p) ==
  IF p \in DOMAIN config.path_limits THEN config.path_limits[p]
  ELSE IF p = "/a/" /\ "/a" \in DOMAIN config.path_limits
       THEN config.path_limits["/a"]
       ELSE config.max_concurrent
\* mutant: path_limits is not consulted
path_limit_default(p) == config.max_concurrent
\* self.config.path_limits.get(path, self.config.max_concurrent)
path_limit(p) ==
  IF p \in DOMAIN config.path_limits THEN config.path_limits[p]
  ELSE config.max_concurrent

\* the object _get_semaphore(path) returns: self._semaphore, or the entry of
\* self._path_semaphores under the path itself
GlobalKey == "_semaphore"
NoSemaphore == "-"
\* mutant: self._semaphore returned whatever per_path says
sem_key_global(p) == GlobalKey
sem_key(p) == IF config.per_path THEN p ELSE GlobalKey

\* mutant: the test "path not in self._path_semaphores" and the store apart,
\* so that a lookup made while an earlier request for the path is still on
\* its way to the semaphore stores a second one
registry_after_get_overlapping(p) ==
  IF /\ config.per_path
     /\ \/ p \notin DOMAIN path_semaphores
        \/ \E e \in Requests : pc[e] = "entered" /\ request_semaphore[e] = p
  THEN (p :> Semaphore(path_limit(p))) @@ path_semaphores
  ELSE path_semaphores
\* mutant: no "if path not in self._path_semaphores", a new semaphore on
\* every call
registry_after_get_always(p) ==
  IF config.per_path
  THEN (p :> Semaphore(path_limit(p))) @@ path_semaphores
  ELSE path_semaphores
\* self._path_semaphores after _get_semaphore(path)
registry_after_get(p) ==
  IF config.per_path /\ p \notin DOMAIN path_semaphores
  THEN (p :> Semaphore(path_limit(p))) @@ path_semaphores
  ELSE path_semaphores

SemaphoreAt(reg, k) == IF k = GlobalKey THEN semaphore ELSE reg[k]

Store(reg, k, s) ==
  /\ semaphore' = IF k = GlobalKey THEN s ELSE semaphore
  /\ path_semaphores' = IF k = GlobalKey THEN reg ELSE [reg EXCEPT ![k] = s]

\* mutant: ">" for ">="
Overloaded_gt == waiting > config.max_waiting
\* mutant: the request counts itself before the check
Overloaded_early == waiting + 1 >= config.max_waiting
\* "if self._waiting >= self.config.max_waiting"
Overloaded == waiting >= config.max_waiting

\* mutant: the decrement after the try statement instead of in its finally, so
\* a cancelled wait skips it
waiting_after_wait_no_finally(w, how) == IF how = "cancelled" THEN w ELSE w - 1
\* mutant: the decrement after a successful acquire only, so a wait that times
\* out or is cancelled stays counted
waiting_after_wait_on_success(w, how) == IF how = "acquired" THEN w - 1 ELSE w
\* "finally: self._waiting -= 1", whichever way the wait ended: "acquired",
\* "timeout" or "cancelled"
waiting_after_wait(w, how) == w - 1

\* mutant: the release in an "except" clause only, so a normal return keeps
\* the permit
release_after_call_on_error(st, outcome) ==
  IF outcome = "return" THEN st ELSE release(st)
\* mutant: the release after the call instead of in a finally
release_after_call_on_return(st, outcome) ==
  IF outcome = "return" THEN release(st) ELSE st
\* mutant: "except Exception: release; raise", which a CancelledError passes
release_after_call_except(st, outcome) ==
  IF outcome = "cancel" THEN st ELSE release(st)
\* "try: return await call_next(request) finally: semaphore.release()"
release_after_call(st, outcome) == release(st)

\* mutant: the waiter that gives up leaves its future in the FIFO
abandon_in_queue(st, r) ==
  [sem |-> [st.sem EXCEPT !.value = IF st.pc[r] = "granted" THEN @ + 1 ELSE @],
   pc  |-> [st.pc EXCEPT ![r] = "idle"]]
\* a waiter leaves the FIFO without the permit: its future is cancelled, or it
\* was given a permit that it puts back
abandon(st, r) ==
  LET granted == st.pc[r] = "granted"
      left == [sem |-> [st.sem EXCEPT !.waiters = Remove(@, r),
                                      !.value = IF granted THEN @ + 1 ELSE @],
               pc  |-> [st.pc EXCEPT ![r] = "idle"]]
  IN IF inline THEN wake_all(left)
     ELSE IF granted THEN wake_up_next(left) ELSE left

Outcome(o) ==
  CASE o = "return" -> DownstreamResponse
    [] o = "raise"  -> DownstreamError
    [] o = "raise_timeout" -> DownstreamTimeoutError
    [] o = "cancel" -> CancelledError
Outcomes == {"return", "raise", "raise_timeout", "cancel"}

\* mutant: call_next inside the try statement of the wait, so that its
\* "except asyncio.TimeoutError" answers for the handler's TimeoutError too
result_after_call_caught(o) ==
  IF o = "raise_timeout" THEN TimeoutResponse ELSE Outcome(o)
\* "return await call_next(request)", line 130: what dispatch() gives its
\* caller, the response or the exception of call_next
result_after_call(o) == Outcome(o)

\* dispatch() left at the given line with the given result
Exit(line, res) == [at |-> line, result |-> res]
NotReturned == Exit(0, NoResult)

\* the requests whose acquire task is made and not yet started, for the
\* semaphore k
Entered(k) == {e \in Requests : pc[e] = "entered" /\ request_semaphore[e] = k}

\* what a request for path p that enters the wait finds in its pool when it
\* arrives: "none", no permit; "clear", a permit that no earlier request is
\* queued for or about to take; "contended", a permit otherwise
Found(p) ==
  LET s == SemaphoreAt(registry_after_get(p), sem_key(p))
  IN IF s.value = 0 THEN "none"
     ELSE IF s.waiters = << >> /\ s.value > Cardinality(Entered(sem_key(p)))
          THEN "clear"
          ELSE "contended"

\* the set `contended` once request r has entered the wait for path p
contended_after_enter(r, p) ==
  IF Found(p) = "contended" THEN contended \cup {r} ELSE contended

\* BulkheadMiddleware.__init__
BulkheadInit ==
  /\ config \in Configs
  /\ inline \in BOOLEAN
  /\ waiting = 0
  /\ semaphore = Semaphore(config.max_concurrent)
  /\ path_semaphores = << >>
  /\ ready = << >>
  /\ pc = [r \in Requests |-> "idle"]
  /\ request_semaphore = [r \in Requests |-> NoSemaphore]
  /\ returned = NotReturned
  /\ contended = {}

\* the three middlewares as constructed
Init ==
  /\ BulkheadInit
  /\ GracefulShutdownInit
  /\ ABTestDefault
  /\ CSPReportDefault
  /\ FeatureFlagDefault

\* mutant: the semaphore looked up before should_skip is asked
Skip_after_lookup(r, p) ==
  /\ pc[r] = "idle"
  /\ should_skip(p)
  /\ pc' = [pc EXCEPT ![r] = "skipped"]
  /\ returned' = NotReturned
  /\ path_semaphores' = registry_after_get(p)
  /\ UNCHANGED <<other_middlewares, config, inline, waiting, semaphore, ready,
                 request_semaphore, contended>>

\* dispatch, lines 95-96: an excluded path goes straight to call_next
Skip(r, p) ==
  /\ pc[r] = "idle"
  /\ should_skip(p)
  /\ pc' = [pc EXCEPT ![r] = "skipped"]
  /\ returned' = NotReturned
  /\ UNCHANGED <<other_middlewares, config, inline, waiting, semaphore,
                 path_semaphores, ready, request_semaphore, contended>>

\* mutant: "self._waiting += 1" before the check of the waiting queue
RejectOverload_counted(r, p) ==
  /\ pc[r] = "idle"
  /\ ~should_skip(p)
  /\ Overloaded
  /\ path_semaphores' = registry_after_get(p)
  /\ returned' = Exit(102, OverloadResponse)
  /\ waiting' = waiting + 1
  /\ UNCHANGED <<other_middlewares, config, inline, semaphore, ready, pc,
                 request_semaphore, contended>>

\* dispatch, lines 98-110: the semaphore is looked up, then the waiting queue
\* is found full
RejectOverload(r, p) ==
  /\ pc[r] = "idle"
  /\ ~should_skip(p)
  /\ Overloaded
  /\ path_semaphores' = registry_after_get(p)
  /\ returned' = Exit(102, OverloadResponse)
  /\ UNCHANGED <<other_middlewares, config, inline, waiting, semaphore, ready,
                 pc, request_semaphore, contended>>

\* dispatch, lines 98-117 (and 126-130 when the permit is taken at once): the
\* request enters the wait
EnterWait(r, p) ==
  /\ pc[r] = "idle"
  /\ ~should_skip(p)
  /\ ~Overloaded
  /\ LET reg == registry_after_get(p)
         k == sem_key(p)
         s == SemaphoreAt(reg, k)
     IN IF inline
        THEN IF ~locked(s)
             THEN /\ Store(reg, k, [s EXCEPT !.value = @ - 1])
                  /\ waiting' = waiting_after_wait(waiting + 1, "acquired")
                  /\ pc' = [pc EXCEPT ![r] = "executing"]
                  /\ contended' = contended
                  /\ ready' = ready
             ELSE /\ Store(reg, k, [s EXCEPT !.waiters = Append(@, r)])
                  /\ waiting' = waiting + 1
                  /\ pc' = [pc EXCEPT ![r] = "queued"]
                  /\ contended' = contended_after_enter(r, p)
                  /\ ready' = ready
        ELSE /\ Store(reg, k, s)
             /\ waiting' = waiting + 1
             /\ pc' = [pc EXCEPT ![r] = "entered"]
             /\ contended' = contended_after_enter(r, p)
             /\ ready' = Append(ready, r)
  /\ request_semaphore' = [request_semaphore EXCEPT ![r] = sem_key(p)]
  /\ returned' = NotReturned
  /\ UNCHANGED <<other_middlewares, config, inline>>

\* line 115, semaphore.acquire() in the task wait_for made for it: the tasks
\* start in the order they were made
AcquireStart(r) ==
  /\ ~inline
  /\ pc[r] = "entered"
  /\ ready # << >> /\ Head(ready) = r
  /\ LET k == request_semaphore[r]
         s == SemaphoreAt(path_semaphores, k)
     IN IF ~locked(s)
        THEN /\ Store(path_semaphores, k, [s EXCEPT !.value = @ - 1])
             /\ pc' = [pc EXCEPT ![r] = "acquired"]
             /\ contended' = contended \ {r}
        ELSE /\ Store(path_semaphores, k, [s EXCEPT !.waiters = Append(@, r)])
             /\ pc' = [pc EXCEPT ![r] = "queued"]
             /\ contended' = contended
  /\ ready' = Tail(ready)
  /\ returned' = NotReturned
  /\ UNCHANGED <<other_middlewares, config, inline, waiting,
                 request_semaphore>>

\* line 115, the acquire task of a waiter that was given a permit runs again
\* and returns
AcquireWake(r) ==
  /\ ~inline
  /\ pc[r] = "granted"
  /\ LET k == request_semaphore[r]
         s == SemaphoreAt(path_semaphores, k)
         st == wake_after([sem |-> [s EXCEPT !.waiters = Remove(@, r)],
                           pc  |-> [pc EXCEPT ![r] = "acquired"]])
     IN /\ Store(path_semaphores, k, st.sem)
        /\ pc' = st.pc
  /\ contended' = contended \ {r}
  /\ returned' = NotReturned
  /\ UNCHANGED <<other_middlewares, config, inline, waiting, ready,
                 request_semaphore>>

\* lines 114-130: wait_for returns with the permit, the finally takes the
\* request out of the waiting count, call_next is invoked
Admit(r) ==
  /\ \/ inline /\ pc[r] = "granted"
     \/ ~inline /\ pc[r] = "acquired"
  /\ LET k == request_semaphore[r]
         s == SemaphoreAt(path_semaphores, k)
         st == IF inline
               THEN wake_after([sem |-> [s EXCEPT !.waiters = Remove(@, r)],
                                pc  |-> [pc EXCEPT ![r] = "executing"]])
               ELSE [sem |-> s, pc |-> [pc EXCEPT ![r] = "executing"]]
     IN /\ Store(path_semaphores, k, st.sem)
        /\ pc' = st.pc
  /\ waiting' = waiting_after_wait(waiting, "acquired")
  /\ contended' = contended \ {r}
  /\ returned' = NotReturned
  /\ UNCHANGED <<other_middlewares, config, inline, ready, request_semaphore>>

\* mutant: no "except asyncio.TimeoutError", the TimeoutError of wait_for
\* leaves dispatch
Timeout_raises(r) ==
  /\ pc[r] \in {"queued", "granted"}
  /\ LET k == request_semaphore[r]
         s == SemaphoreAt(path_semaphores, k)
         st == abandon([sem |-> s, pc |-> pc], r)
     IN /\ Store(path_semaphores, k, st.sem)
        /\ pc' = st.pc
  /\ waiting' = waiting_after_wait(waiting, "timeout")
  /\ returned' = Exit(114, DownstreamTimeoutError)
  /\ request_semaphore' = [request_semaphore EXCEPT ![r] = NoSemaphore]
  /\ contended' = contended \ {r}
  /\ UNCHANGED <<other_middlewares, config, inline, ready>>
\* lines 118-127: the timeout ends a wait that is suspended on the semaphore
Timeout(r) ==
  /\ pc[r] \in {"queued", "granted"}
  /\ LET k == request_semaphore[r]
         s == SemaphoreAt(path_semaphores, k)
         st == abandon([sem |-> s, pc |-> pc], r)
     IN /\ Store(path_semaphores, k, st.sem)
        /\ pc' = st.pc
  /\ waiting' = waiting_after_wait(waiting, "timeout")
  /\ returned' = Exit(119, TimeoutResponse)
  /\ request_semaphore' = [request_semaphore EXCEPT ![r] = NoSemaphore]
  /\ contended' = contended \ {r}
  /\ UNCHANGED <<other_middlewares, config, inline, ready>>

\* lines 113-127: the request's task is cancelled during the wait
CancelWait(r) ==
  /\ pc[r] \in {"entered", "queued", "granted"}
  /\ LET k == request_semaphore[r]
         s == SemaphoreAt(path_semaphores, k)
         st == IF pc[r] = "entered"
               THEN [sem |-> s, pc |-> [pc EXCEPT ![r] = "idle"]]
               ELSE abandon([sem |-> s, pc |-> pc], r)
     IN /\ Store(path_semaphores, k, st.sem)
        /\ pc' = st.pc
  /\ ready' = Remove(ready, r)
  /\ waiting' = waiting_after_wait(waiting, "cancelled")
  /\ returned' = Exit(114, CancelledError)
  /\ request_semaphore' = [request_semaphore EXCEPT ![r] = NoSemaphore]
  /\ contended' = contended \ {r}
  /\ UNCHANGED <<other_middlewares, config, inline>>

\* lines 129-132: call_next returns, raises or is cancelled; the permit is
\* released
Finish(r, o) ==
  /\ pc[r] = "executing"
  /\ LET k == request_semaphore[r]
         s == SemaphoreAt(path_semaphores, k)
         st == release_after_call([sem |-> s, pc |-> [pc EXCEPT ![r] = "idle"]], o)
     IN /\ Store(path_semaphores, k, st.sem)
        /\ pc' = st.pc
  /\ returned' = Exit(130, result_after_call(o))
  /\ request_semaphore' = [request_semaphore EXCEPT ![r] = NoSemaphore]
  /\ UNCHANGED <<other_middlewares, config, inline, waiting, ready,
                 contended>>

\* line 96: call_next of an excluded request returns, raises or is cancelled
SkipFinish(r, o) ==
  /\ pc[r] = "skipped"
  /\ pc' = [pc EXCEPT ![r] = "idle"]
  /\ returned' = Exit(96, Outcome(o))
  /\ UNCHANGED <<other_middlewares, config, inline, waiting, semaphore,
                 path_semaphores, ready, request_semaphore, contended>>

\* dispatch() up to its first await
dispatch(r, p) == Skip(r, p) \/ RejectOverload(r, p) \/ EnterWait(r, p)

Next ==
  \/ \E r \in Requests, p \in Paths : Skip(r, p)
  \/ \E r \in Requests, p \in Paths : RejectOverload(r, p)
  \/ \E r \in Requests, p \in Paths : EnterWait(r, p)
  \/ \E r \in Requests : AcquireStart(r)
  \/ \E r \in Requests : AcquireWake(r)
  \/ \E r \in Requests : Admit(r)
  \/ \E r \in Requests : Timeout(r)
  \/ \E r \in Requests : CancelWait(r)
  \/ \E r \in Requests, o \in Outcomes : Finish(r, o)
  \/ \E r \in Requests, o \in Outcomes : SkipFinish(r, o)

Spec == Init /\ [][Next]_vars

\* the requests between "self._waiting += 1" and "self._waiting -= 1"
InWait == {r \in Requests : pc[r] \in {"entered", "queued", "granted", "acquired"}}

TypeOK ==
  /\ config \in BulkheadConfig
  /\ inline \in BOOLEAN
  /\ waiting \in Int
  /\ semaphore.value \in Int
  /\ DOMAIN path_semaphores \subseteq Paths
  /\ \A r \in Requests :
       /\ pc[r] \in {"idle", "skipped", "entered", "queued", "granted",
                     "acquired", "executing"}
       /\ request_semaphore[r] \in Paths \cup {GlobalKey, NoSemaphore}
  /\ contended \subseteq InWait

\* ------------------------------------------------------------------ claims
\* what the claims speak of, written from the configuration and the state
\* alone
GatedPaths == Paths \ exclude_paths

\* the limit of the partition of path p
PartitionLimit(p) ==
  IF config.per_path /\ p \in DOMAIN config.path_limits
  THEN config.path_limits[p]
  ELSE config.max_concurrent

\* request r waits for or holds a permit of the partition of path p
SamePartition(r, p) ==
  request_semaphore[r] = IF config.per_path THEN p ELSE "_semaphore"

\* the pool request r waits for or holds a permit of
PoolOf(r) ==
  IF config.per_path THEN path_semaphores[request_semaphore[r]] ELSE semaphore

\* the requests that hold a permit of the partition of p: given one by the
\* semaphore (ACQUIRED) or inside call_next (EXECUTING)
PermitHolders(p) ==
  {r \in Requests : pc[r] \in {"granted", "acquired", "executing"}
                    /\ SamePartition(r, p)}

HasPool(p) == config.per_path => p \in DOMAIN path_semaphores
Pool(p) == IF config.per_path THEN path_semaphores[p] ELSE semaphore

IsOverloadResponse(x) ==
  /\ x.kind = "response"
  /\ x.status_code = 503
  /\ x.content = {<<"error", "true">>, <<"message", "Service overloaded">>,
                  <<"retry_after", "5">>}
  /\ x.headers = {<<"Retry-After", "5">>}

IsTimeoutResponse(x) ==
  /\ x.kind = "response"
  /\ x.status_code = 503
  /\ x.content = {<<"error", "true">>,
                  <<"message", "Request timeout waiting for resources">>}
  /\ x.headers = {}

\* free permits + permits held = limit, for every partition
Conserved ==
  \A p \in GatedPaths :
    IF HasPool(p)
    THEN Pool(p).value + Cardinality(PermitHolders(p)) = PartitionLimit(p)
    ELSE PermitHolders(p) = {}

\* request r is in no pool's FIFO and in no list of tasks to start
Gone(r) ==
  /\ \A i \in 1..Len(ready) : ready[i] # r
  /\ \A i \in 1..Len(semaphore.waiters) : semaphore.waiters[i] # r
  /\ \A q \in DOMAIN path_semaphores :
       \A i \in 1..Len(path_semaphores[q].waiters) :
         path_semaphores[q].waiters[i] # r

\* C1: the requests that hold a permit of one partition are never more than
\* the partition's limit: path_limits[path] with per_path and an entry for
\* the path, max_concurrent otherwise.
C1_PermitBound ==
  \A p \in GatedPaths : Cardinality(PermitHolders(p)) <= PartitionLimit(p)

\* C1 witness: a partition with all its permits held by executing requests
\* and one more request queued for it.
C1_Saturated ==
  \E p \in GatedPaths :
    /\ Cardinality(PermitHolders(p)) = PartitionLimit(p)
    /\ \A h \in PermitHolders(p) : pc[h] = "executing"
    /\ \E r \in Requests : pc[r] = "queued" /\ SamePartition(r, p)

\* the acquire task of request r is not started yet and will find a permit:
\* nobody is queued for the pool and the pool has more permits than there are
\* tasks to start before r's
Clear(r) ==
  /\ pc[r] = "entered"
  /\ PoolOf(r).waiters = << >>
  /\ PoolOf(r).value >
       Cardinality({e \in Requests :
                      /\ request_semaphore[e] = request_semaphore[r]
                      /\ \E i, j \in 1..Len(ready) :
                           i < j /\ ready[i] = e /\ ready[j] = r})

C3_OverloadRejection ==
  [][\A r \in Requests, p \in GatedPaths :
       (dispatch(r, p) /\ waiting >= config.max_waiting)
       => /\ IsOverloadResponse(returned'.result)
          /\ pc'[r] = "idle"
          /\ waiting' = waiting
          /\ semaphore' = semaphore
          /\ \A q \in DOMAIN path_semaphores' :
               IF q \in DOMAIN path_semaphores
               THEN path_semaphores'[q] = path_semaphores[q]
               ELSE path_semaphores'[q] =
                      [value |-> PartitionLimit(q), waiters |-> << >>]]_vars

\* C3 witness: a request was just rejected with the waiting queue full of
\* waiting requests.
C3_Rejected ==
  /\ IsOverloadResponse(returned.result)
  /\ config.max_waiting > 0
  /\ Cardinality(InWait) = config.max_waiting

\* C4: a waiter whose timeout elapses receives exactly the timeout response
\* (no Retry-After header); call_next is not invoked for it, it holds no
\* permit and is in no queue afterwards, every permit is free or held by
\* another request, and the waiting counter is down by one, counting the
\* requests that still wait.
C4_AcquisitionTimeout ==
  [][\A r \in Requests :
       Timeout(r)
       => /\ IsTimeoutResponse(returned'.result)
          /\ pc'[r] = "idle"
          /\ Gone(r)'
          /\ Conserved'
          /\ waiting' = waiting - 1
          /\ waiting' = Cardinality(InWait')]_vars

\* C4 witness: a waiter has just timed out while the holder of the permit is
\* still executing.
C4_TimedOut ==
  /\ IsTimeoutResponse(returned.result)
  /\ \E h \in Requests : pc[h] = "executing" /\ PoolOf(h).value = 0

\* C5: in every state, for each partition, free permits + permits held =
\* the partition's limit, whichever way call_next was left.
C5_PermitConservation == Conserved

\* C5 witness: call_next has just raised, and the permit it held went to a
\* waiter.
C5_ReleasedOnError ==
  /\ returned = Exit(130, DownstreamError)
  /\ \E r \in Requests : pc[r] = "granted"

\* C6: with per_path and path_limits {"/a": 1, "/b": 1}, while one request
\* holds the permit of /a and every other request in the gate is one to /a, a
\* request to /b whose permit is free is neither rejected nor queued: it goes
\* on to take the permit of /b.
C6_PartitionIsolation ==
  [][\A r \in Requests :
       (/\ dispatch(r, "/b")
        /\ config.per_path
        /\ config.path_limits = ("/a" :> 1) @@ ("/b" :> 1)
        /\ \E h \in Requests : pc[h] = "executing" /\ request_semaphore[h] = "/a"
        /\ \A q \in Requests \ {r} : pc[q] # "idle" => request_semaphore[q] = "/a"
        /\ "/b" \in DOMAIN path_semaphores
             => path_semaphores["/b"] = [value |-> 1, waiters |-> << >>])
       => /\ pc'[r] \in {"executing", "entered"}
          /\ returned' = NotReturned]_vars

\* C7: in every state 0 <= waiting counter <= max_waiting.
C7_WaitingBound == 0 <= waiting /\ waiting <= config.max_waiting

\* C7 witness: two requests have passed the check of the waiting queue before
\* either has tried the semaphore, and the counter is at max_waiting.
C7_TwoEntered ==
  /\ waiting = config.max_waiting
  /\ \E r, e \in Requests : r # e /\ pc[r] = "entered" /\ pc[e] = "entered"

\* C8: when a waiting request's task is cancelled the wait ends without
\* call_next, the request holds no permit and is in no queue afterwards (a
\* permit given to it is put back), and the waiting counter is down by one,
\* counting the requests that still wait.
C8_CancelledWhileWaiting ==
  [][\A r \in Requests :
       CancelWait(r)
       => /\ pc'[r] = "idle"
          /\ returned' = Exit(114, CancelledError)
          /\ Gone(r)'
          /\ Conserved'
          /\ waiting' = waiting - 1
          /\ waiting' = Cardinality(InWait')]_vars

\* C8 witness: a wait has just been cancelled while the holder of the permit
\* is still executing, and nobody waits any more.
C8_WaitCancelled ==
  /\ returned = Exit(114, CancelledError)
  /\ waiting = 0
  /\ \E h \in Requests : pc[h] = "executing" /\ PoolOf(h).value = 0

\* C9: when no request is in the gate, every pool has all its permits free
\* and no waiter, and the waiting counter is 0.
C9_CapacityRestored ==
  (\A r \in Requests : pc[r] = "idle")
  => /\ waiting = 0
     /\ ready = << >>
     /\ semaphore = [value |-> config.max_concurrent, waiters |-> << >>]
     /\ \A q \in DOMAIN path_semaphores :
          path_semaphores[q] = [value |-> PartitionLimit(q), waiters |-> << >>]

\* C9 witness: the gate is empty again after both partitions were used and
\* the last request to leave was a waiter that timed out.
C9_EmptyAfterTimeout ==
  /\ \A r \in Requests : pc[r] = "idle"
  /\ IsTimeoutResponse(returned.result)
  /\ DOMAIN path_semaphores = {"/a", "/b"}

\* the gate's state is left as it was
GateUnchanged ==
  /\ waiting' = waiting
  /\ semaphore' = semaphore
  /\ path_semaphores' = path_semaphores
  /\ ready' = ready

\* C10: a request for an excluded path goes to call_next in the step it
\* arrives in, whatever the load, and neither its arrival nor the end of its
\* call_next changes the waiting counter, the registry or a pool.
C10_ExclusionBypass ==
  [][\A r \in Requests :
       /\ \A p \in exclude_paths :
            dispatch(r, p) => pc'[r] = "skipped" /\ GateUnchanged
       /\ (pc[r] = "skipped" /\ pc'[r] # "skipped")
          => pc'[r] = "idle" /\ returned'.at = 96 /\ GateUnchanged]_vars

\* C10 witness: an excluded request is inside call_next while every permit is
\* held and the waiting queue is full.
C10_SkippedUnderLoad ==
  /\ ~config.per_path
  /\ semaphore.value = 0
  /\ config.max_waiting > 0
  /\ waiting >= config.max_waiting
  /\ \E r \in Requests : pc[r] = "skipped"

\* no request is in the gate
IdleGate == \A q \in Requests : pc[q] = "idle"

\* C11: with max_concurrent = 1 and max_waiting = 0, a non-excluded request A
\* that arrives at an idle gate takes the single permit and goes on to
\* call_next, and a request B that arrives while A holds the permit is
\* answered at once with the overload response.
C11_ZeroQueue ==
  [][\A r \in Requests, p \in GatedPaths :
       (/\ dispatch(r, p)
        /\ config.max_concurrent = 1
        /\ config.max_waiting = 0
        /\ ~config.per_path)
       => IF IdleGate
          THEN /\ pc'[r] \in {"executing", "entered"}
               /\ returned' = NotReturned
          ELSE /\ pc'[r] = "idle"
               /\ IsOverloadResponse(returned'.result)]_vars

\* C12: a non-excluded request that arrives with the waiting counter below
\* max_waiting and no free permit in its pool is made to wait, not rejected;
\* and a wait that ends without a permit ends in the timeout response (or in
\* the cancellation of the task), never in the overload response.
C12_QueueThenTimeout ==
  [][\A r \in Requests :
       /\ \A p \in GatedPaths :
            (dispatch(r, p) /\ waiting < config.max_waiting
               /\ Found(p) = "none")
            => /\ pc'[r] \in {"queued", "entered"}
               /\ returned' = NotReturned
               /\ waiting' = waiting + 1
       /\ (pc[r] \in {"entered", "queued", "granted"} /\ pc'[r] = "idle")
          => /\ ~IsOverloadResponse(returned'.result)
             /\ \/ IsTimeoutResponse(returned'.result)
                \/ returned' = Exit(114, CancelledError)
       /\ (pc[r] = "queued" /\ pc'[r] # "queued")
          => pc'[r] \in {"granted", "idle"}]_vars

\* C12 witness: max_concurrent = 1, A is inside call_next with the permit and
\* B is queued behind it with room left in the waiting queue.
C12_QueuedBehindHolder ==
  \E a, b \in Requests :
    /\ config.max_concurrent = 1 /\ ~config.per_path
    /\ pc[a] = "executing" /\ pc[b] = "queued"
    /\ waiting = 1 /\ waiting < config.max_waiting

\* ------------------------------------------------------------ burst scenario
\* The gate when no wait times out, no task is cancelled and every handler
\* returns a response: the event loop runs every task that is ready
\* (AcquireStart, AcquireWake, Admit) and every call_next returns.
BurstNext ==
  \/ \E r \in Requests, p \in Paths : dispatch(r, p)
  \/ \E r \in Requests : AcquireStart(r) \/ AcquireWake(r) \/ Admit(r)
  \/ \E r \in Requests : Finish(r, "return") \/ SkipFinish(r, "return")

\* the scenario's gate: one pool for all paths
BurstInit == Init /\ ~config.per_path

BurstSpec ==
  /\ BurstInit
  /\ [][BurstNext]_vars
  /\ \A r \in Requests :
       /\ WF_vars(AcquireStart(r))
       /\ WF_vars(AcquireWake(r))
       /\ WF_vars(Admit(r))
       /\ WF_vars(Finish(r, "return"))

\* C13: the waiting counter counts exactly the requests in the wait, so the
\* holders of the permits are not in it; a request is rejected for overload
\* only when max_waiting requests are in the wait; and when the holders
\* return before any waiter times out, every request that waits for a permit
\* gets one, call_next is invoked for it and dispatch returns its response.
C13_Burst ==
  /\ [](waiting = Cardinality(InWait))
  /\ [][\A r \in Requests, p \in GatedPaths :
          (dispatch(r, p) /\ pc'[r] = "idle")
          => Cardinality(InWait) >= config.max_waiting]_vars
  /\ [][\A r \in Requests :
          (pc[r] = "executing" /\ pc'[r] = "idle")
          => returned' = Exit(130, DownstreamResponse)]_vars
  /\ \A r \in Requests :
       (pc[r] \in {"entered", "queued"}) ~> (pc[r] = "executing")

\* C13 witness: every permit of the global pool is held by a request inside
\* call_next and two more requests are queued, the second just arrived.
C13_HoldersAndWaiters ==
  /\ ~config.per_path
  /\ Cardinality({r \in Requests : pc[r] = "executing"}) = config.max_concurrent
  /\ Cardinality({r \in Requests : pc[r] = "queued"}) = 2
  /\ waiting = 2
  /\ returned = NotReturned

\* ------------------------------------------------------------------ liveness
\* a step of the task of request r after it has entered dispatch(): the
\* event loop runs the task when it is ready (AcquireStart, AcquireWake,
\* Admit), the timer of wait_for fires while the wait is suspended (Timeout),
\* call_next ends (Finish, SkipFinish)
TaskStep(r) ==
  \/ AcquireStart(r) \/ AcquireWake(r) \/ Admit(r) \/ Timeout(r)
  \/ \E o \in Outcomes : Finish(r, o) \/ SkipFinish(r, o)

\* every task that can take a step takes one; that every call_next ends is the
\* claim's assumption
Fairness == \A r \in Requests : WF_vars(TaskStep(r))

\* one pool with a single permit, the gate in which requests wait longest
LiveInit == Init /\ ~config.per_path /\ config.max_concurrent = 1

LiveSpec == LiveInit /\ [][Next]_vars /\ Fairness

PoolAt(k) == IF k = "_semaphore" THEN semaphore ELSE path_semaphores[k]

\* what the handler produced when call_next ended the way o says
Produced(o) ==
  [kind |-> IF o = "return" THEN "response" ELSE "exception",
   status_code |-> IF o = "return" THEN 200 ELSE 0,
   content |-> CASE o = "return" -> {<<"body", "OK">>}
                 [] o = "raise" -> {<<"type", "RuntimeError">>}
                 [] o = "raise_timeout" -> {<<"type", "TimeoutError">>}
                 [] o = "cancel" -> {<<"type", "CancelledError">>},
   headers |-> {}]

\* C15: when call_next ends for an admitted request, dispatch() leaves at
\* line 130 with exactly what call_next produced, a TimeoutError of the
\* handler included, never with one of the two 503 responses; and in the same
\* step the request's permit is back: it holds none, and free permits +
\* permits held = limit.
C15_PassThrough ==
  [][\A r \in Requests :
       /\ \A o \in Outcomes :
            Finish(r, o)
            => /\ returned' = [at |-> 130, result |-> Produced(o)]
               /\ ~IsTimeoutResponse(returned'.result)
               /\ ~IsOverloadResponse(returned'.result)
       /\ (pc[r] = "executing" /\ pc'[r] # "executing")
          => /\ pc'[r] = "idle"
             /\ \E o \in Outcomes : returned'.result = Produced(o)
             /\ Conserved'
             /\ \E k \in Paths \cup {"_semaphore"} :
                  /\ k = request_semaphore[r]
                  /\ \/ PoolAt(k)'.value = PoolAt(k).value + 1
                     \/ \E w \in Requests :
                          /\ pc[w] = "queued" /\ pc'[w] = "granted"
                          /\ request_semaphore[w] = k]_vars

\* C15 witness: the handler of an admitted request has just raised a
\* TimeoutError of its own, and the only permit is free again.
C15_HandlerTimeoutPassed ==
  /\ returned = [at |-> 130, result |-> Produced("raise_timeout")]
  /\ ~config.per_path
  /\ config.max_concurrent = 1
  /\ semaphore = [value |-> 1, waiters |-> << >>]

\* C20: a request that is rejected for overload does not resolve its
\* partition: the registry holds the same partitions after the rejection as
\* before it, and no pool is created or changed by it.
C20_RejectionLeavesRegistry ==
  [][\A r \in Requests, p \in Paths :
       RejectOverload(r, p)
       => /\ DOMAIN path_semaphores' = DOMAIN path_semaphores
          /\ path_semaphores' = path_semaphores
          /\ semaphore' = semaphore]_vars

\* C21: in every state the waiting counter is the number of requests that
\* have entered the wait and whose wait has not yet ended with the permit,
\* the timeout or a cancellation; a step changes it by one for the one
\* request that enters or leaves the wait, and a request rejected for
\* overload leaves it as it was.
C21_WaitingExact ==
  /\ [](waiting = Cardinality(InWait))
  /\ [][/\ Cardinality(InWait' \ InWait) + Cardinality(InWait \ InWait') <= 1
        /\ waiting' - waiting
             = Cardinality(InWait' \ InWait) - Cardinality(InWait \ InWait')
        /\ \A r \in Requests, p \in Paths :
             RejectOverload(r, p) => waiting' = waiting]_vars

\* C21 witness: a request has just been rejected for overload while one
\* waiter has been given the permit and another is still queued, both
\* counted.
C21_TwoCounted ==
  /\ waiting = 2
  /\ IsOverloadResponse(returned.result)
  /\ \E r, e \in Requests : pc[r] = "granted" /\ pc[e] = "queued"
\* the states of a request, as dispatch() sees them: WAITING from
\* "self._waiting += 1" until wait_for returns, ACQUIRED when the acquire task
\* has returned and wait_for not yet, EXECUTING inside call_next
WAITING == {"entered", "queued", "granted"}
ACQUIRED == {"acquired"}
EXECUTING == {"executing"}

\* a step of the state machine for request r: from the check to the overload
\* response or the wait, from the wait to the permit or out, from the permit
\* to call_next, from call_next to the release.  A wait is left without the
\* permit by the timeout response and, if `cancellable`, by the
\* CancelledError of the request's task; a request that has left holds
\* nothing, and what moves it next is a new arrival.
MachineStep(r, cancellable) ==
  /\ pc[r] = "idle" /\ pc'[r] # "idle"
     => /\ \E p \in Paths : dispatch(r, p)
        /\ pc'[r] \in WAITING \cup EXECUTING \cup {"skipped"}
  /\ \A p \in GatedPaths :
       (pc[r] = "idle" /\ pc'[r] = "idle" /\ dispatch(r, p))
       => IsOverloadResponse(returned'.result)
  /\ pc[r] \in WAITING /\ pc'[r] \notin WAITING
     => \/ pc'[r] \in ACQUIRED \cup EXECUTING
        \/ pc'[r] = "idle" /\ IsTimeoutResponse(returned'.result)
        \/ /\ cancellable
           /\ pc'[r] = "idle"
           /\ returned' = Exit(114, CancelledError)
  /\ pc[r] \in ACQUIRED /\ pc'[r] \notin ACQUIRED => pc'[r] \in EXECUTING
  /\ pc[r] \in EXECUTING /\ pc'[r] \notin EXECUTING
     => pc'[r] = "idle" /\ returned'.at = 130
  /\ pc[r] # "idle" /\ pc'[r] = "idle"
     => Gone(r)' /\ request_semaphore'[r] = NoSemaphore

\* call_next runs for a gated request only while it holds a permit of its own
\* partition
ExecutingWithPermit ==
  \A r \in Requests :
    pc[r] \in EXECUTING
    => /\ request_semaphore[r] \in GatedPaths \cup {GlobalKey}
       /\ config.per_path <=> request_semaphore[r] # GlobalKey
       /\ PoolOf(r).value
            + Cardinality({h \in Requests :
                             /\ pc[h] \in {"granted", "acquired", "executing"}
                             /\ request_semaphore[h] = request_semaphore[r]})
          = (IF config.per_path THEN path_limit(request_semaphore[r])
             ELSE config.max_concurrent)

\* C22 as stated: a non-excluded request goes from the check to the overload
\* response, or to the wait and from there to the timeout response or to the
\* permit, call_next and the release, and no other way; call_next runs only
\* while the request holds a permit of its partition; a request that has
\* ended does nothing more.
C22_StateMachine ==
  /\ []ExecutingWithPermit
  /\ [][\A r \in Requests : MachineStep(r, FALSE)]_vars

\* C22 amended: as stated, with one more way out of the wait: the request's
\* task is cancelled, the CancelledError leaves dispatch and no response is
\* made.
C22_StateMachineWithCancel ==
  /\ []ExecutingWithPermit
  /\ [][\A r \in Requests : MachineStep(r, TRUE)]_vars

\* C22 witness: a wait has just been cancelled while a second request has its
\* permit and waits for wait_for to return and a third is inside call_next.
C22_CancelledBesideHolders ==
  /\ returned = Exit(114, CancelledError)
  /\ \E e, h \in Requests : pc[e] \in ACQUIRED /\ pc[h] \in EXECUTING
\* the requests that hold a permit of the pool stored under key k
HoldersAt(k) ==
  {h \in Requests : /\ pc[h] \in {"granted", "acquired", "executing"}
                    /\ request_semaphore[h] = k}

\* the pool stored under key k has the size it was made with, and the
\* requests queued in it are requests for k
PoolIsOwn(k) ==
  /\ path_semaphores[k].value + Cardinality(HoldersAt(k))
       = PartitionLimit(k)
  /\ \A i \in 1..Len(path_semaphores[k].waiters) :
       request_semaphore[path_semaphores[k].waiters[i]] = k

\* C23: with per_path, the first access to a key stores a pool of
\* path_limits.get(key, max_concurrent) permits under it; a later access finds
\* that pool as it then is; a key once stored stays, its pool keeps its size
\* and serves only requests for that key, and a step changes the pool of at
\* most one key.
C23_Registry ==
  /\ [](config.per_path => \A k \in DOMAIN path_semaphores : PoolIsOwn(k))
  /\ [][config.per_path
        => /\ DOMAIN path_semaphores \subseteq DOMAIN path_semaphores'
           /\ Cardinality({k \in DOMAIN path_semaphores :
                             path_semaphores'[k] # path_semaphores[k]}) <= 1
           /\ \A r \in Requests, p \in GatedPaths :
                (pc[r] = "idle" /\ dispatch(r, p))
                => /\ registry_after_get(p)[p] =
                        (IF p \in DOMAIN path_semaphores
                         THEN path_semaphores[p]
                         ELSE [value |-> PartitionLimit(p),
                               waiters |-> << >>])
                   /\ DOMAIN path_semaphores'
                        = DOMAIN path_semaphores \cup {p}
                   /\ \A k \in DOMAIN path_semaphores \ {p} :
                        path_semaphores'[k] = path_semaphores[k]]_vars

\* C23 witness: /a has a limit of its own, different from max_concurrent; its
\* pool is used up and has a waiter, and the pool of /b, made later, is
\* untouched.
C23_TwoPools ==
  /\ config.per_path
  /\ DOMAIN path_semaphores = {"/a", "/b"}
  /\ "/a" \in DOMAIN config.path_limits
  /\ "/b" \notin DOMAIN config.path_limits
  /\ config.path_limits["/a"] # config.max_concurrent
  /\ path_semaphores["/a"].value = 0
  /\ Len(path_semaphores["/a"].waiters) = 1
  /\ path_semaphores["/b"] =
       [value |-> config.max_concurrent, waiters |-> << >>]
\* C24: however the first accesses of concurrent requests to one key
\* interleave, a pool is made for the key only while the key has none, so
\* once; the requests for the key take their permits from that pool and give
\* them back to it, and never hold more of them than the partition's limit.
C24_OnePoolPerKey ==
  /\ [](config.per_path
        => \A k \in GatedPaths :
             IF k \in DOMAIN path_semaphores
             THEN /\ Cardinality(HoldersAt(k)) <= PartitionLimit(k)
                  /\ path_semaphores[k].value
                       = PartitionLimit(k) - Cardinality(HoldersAt(k))
             ELSE \A r \in Requests : request_semaphore[r] # k)
  /\ [][config.per_path
        => /\ Cardinality(DOMAIN path_semaphores' \ DOMAIN path_semaphores)
                <= 1
           /\ \A k \in DOMAIN path_semaphores :
                /\ k \in DOMAIN path_semaphores'
                /\ path_semaphores'[k].value - path_semaphores[k].value
                     = Cardinality(HoldersAt(k)) - Cardinality(HoldersAt(k)')
           /\ \A k \in DOMAIN path_semaphores' \ DOMAIN path_semaphores :
                \E r \in Requests : pc[r] = "idle" /\ dispatch(r, k)]_vars

\* C24 witness: two requests for /a, whose limit is 1, have made their first
\* access one after the other before either has tried the semaphore; the one
\* pool of /a still has its permit.
C24_OverlappingFirstAccess ==
  /\ config.per_path
  /\ PartitionLimit("/a") = 1
  /\ \E r, e \in Requests :
       /\ r # e
       /\ pc[r] = "entered" /\ request_semaphore[r] = "/a"
       /\ pc[e] = "entered" /\ request_semaphore[e] = "/a"
  /\ DOMAIN path_semaphores = {"/a"}
  /\ path_semaphores["/a"] = [value |-> 1, waiters |-> << >>]
\* the sum of the limits of the partitions of the paths in S
RECURSIVE SumOfLimits(_)
SumOfLimits(S) ==
  IF S = {} THEN 0
  ELSE LET p == CHOOSE q \in S : TRUE
       IN PartitionLimit(p) + SumOfLimits(S \ {p})

\* the gated requests inside call_next
Executing == {r \in Requests : pc[r] = "executing"}

\* C26: with per_path the pool made at construction keeps all its permits and
\* never has a waiter, and the requests inside call_next are at most the sum
\* of the limits of the partitions; nothing holds them to max_concurrent.
C26_NoGlobalCap ==
  config.per_path
  => /\ semaphore = [value |-> config.max_concurrent, waiters |-> << >>]
     /\ \A r \in Requests : request_semaphore[r] # GlobalKey
     /\ Cardinality(Executing) <= SumOfLimits(GatedPaths)

\* C26 witness: with per_path, more requests than max_concurrent are inside
\* call_next, on two paths, as many as the partitions' limits add up to.
C26_OverMaxConcurrent ==
  /\ config.per_path
  /\ Cardinality(Executing) > config.max_concurrent
  /\ Cardinality(Executing) = SumOfLimits(GatedPaths)
  /\ \E r, e \in Executing : request_semaphore[r] # request_semaphore[e]
\* ---- path classification
\* request paths that differ in one character: a trailing slash, the case
ClassPaths == {"/a", "/a/", "/A"}

\* the gate with a limit of 1 for "/a" and for "/b", taking requests for the
\* paths of ClassPaths
ClassifyInit ==
  /\ Init
  /\ inline
  /\ config.max_waiting = MaxWaiting
  /\ config.path_limits = ("/a" :> 1) @@ ("/b" :> 1)

ClassifyNext ==
  \/ \E r \in Requests, p \in ClassPaths : EnterWait(r, p)
  \/ \E r \in Requests : Admit(r)
  \/ \E r \in Requests : Timeout(r)
  \/ \E r \in Requests, o \in Outcomes : Finish(r, o)

ClassifySpec == ClassifyInit /\ [][ClassifyNext]_vars

\* C25: without per_path every request takes its permit from the one pool of
\* max_concurrent permits, whatever its path and whatever path_limits says,
\* and the registry stays empty; with per_path a request takes its permit
\* from the pool stored under exactly its path, whose size is the path_limits
\* entry of exactly that path or else max_concurrent, and leaves the pools of
\* all other paths as they are.
C25_Classification ==
  /\ [](IF config.per_path
        THEN \A k \in DOMAIN path_semaphores :
               path_semaphores[k].value + Cardinality(HoldersAt(k))
                 = (IF k \in DOMAIN config.path_limits
                    THEN config.path_limits[k]
                    ELSE config.max_concurrent)
        ELSE /\ path_semaphores = << >>
             /\ semaphore.value + Cardinality(HoldersAt(GlobalKey))
                  = config.max_concurrent)
  /\ [][\A r \in Requests, p \in ClassPaths :
          EnterWait(r, p)
          => IF config.per_path
             THEN /\ request_semaphore'[r] = p
                  /\ p \in DOMAIN path_semaphores'
                  /\ \A q \in DOMAIN path_semaphores \ {p} :
                       path_semaphores'[q] = path_semaphores[q]
             ELSE request_semaphore'[r] = GlobalKey]_vars

\* C25 witness: with a limit of 1 for "/a" and max_concurrent 2, one request
\* for "/a" executes and one is queued behind it, while a request for "/a/"
\* executes on a pool of its own that has a second permit left.
C25_SlashIsAnotherPath ==
  /\ config.per_path
  /\ config.max_concurrent = 2
  /\ \E r, e, h \in Requests :
       /\ pc[r] = "executing" /\ request_semaphore[r] = "/a"
       /\ pc[e] = "queued" /\ request_semaphore[e] = "/a"
       /\ pc[h] = "executing" /\ request_semaphore[h] = "/a/"
  /\ path_semaphores["/a/"] = [value |-> 1, waiters |-> << >>]
\* --------------------------------------------------- GracefulShutdownMiddleware
\* GracefulShutdownConfig.check_path
check_path == "/_shutdown"
ShutdownPaths == Paths \cup {check_path}

\* lines 105-110: the status answer
StatusResponse ==
  [kind |-> "response", status_code |-> 200,
   content |-> {<<"shutting_down", IF shutting_down THEN "true" ELSE "false">>,
                <<"in_flight", ToString(in_flight)>>},
   headers |-> {}]
\* lines 114-121
ShuttingDownResponse ==
  [kind |-> "response", status_code |-> 503,
   content |-> {<<"error", "true">>,
                <<"message", "Service is shutting down">>},
   headers |-> {<<"Connection", "close">>}]

\* mutant: should_skip asked first, as the other middlewares do, so that an
\* excluded path is served during shutdown
rejects_unless_excluded(p) == shutting_down /\ ~should_skip(p)
\* "if self._shutting_down", line 113
rejects(p) == shutting_down

\* mutant: "while self._in_flight > 1"
Draining_gt1 == in_flight > 1
\* "while self._in_flight > 0", line 97
Draining == in_flight > 0

\* dispatch, lines 104-110
StatusCheck(r, p) ==
  /\ r \notin serving
  /\ p = check_path
  /\ responded' = StatusResponse
  /\ UNCHANGED <<bulkhead_vars, ab_vars, csp_vars, flag_vars>>
  /\ UNCHANGED <<shutting_down, in_flight, serving, shutdown_pc,
                 shutdown_result>>

\* dispatch, lines 113-121
RejectShutdown(r, p) ==
  /\ r \notin serving
  /\ p # check_path
  /\ rejects(p)
  /\ responded' = ShuttingDownResponse
  /\ UNCHANGED <<bulkhead_vars, ab_vars, csp_vars, flag_vars>>
  /\ UNCHANGED <<shutting_down, in_flight, serving, shutdown_pc,
                 shutdown_result>>

\* dispatch, lines 124-128: the request is counted and call_next is invoked
Accept(r, p) ==
  /\ r \notin serving
  /\ p # check_path
  /\ ~rejects(p)
  /\ in_flight' = in_flight + 1
  /\ serving' = serving \cup {r}
  /\ responded' = NoResult
  /\ UNCHANGED <<bulkhead_vars, ab_vars, csp_vars, flag_vars>>
  /\ UNCHANGED <<shutting_down, shutdown_pc, shutdown_result>>

\* mutant: the decrement after the call instead of in a finally
in_flight_after_call_on_return(o) ==
  IF o = "return" THEN in_flight - 1 ELSE in_flight
\* "finally: async with self._lock: self._in_flight -= 1", lines 129-131,
\* however call_next ended
in_flight_after_call(o) == in_flight - 1

\* dispatch, lines 128-131: call_next returns, raises or is cancelled
Complete(r, o) ==
  /\ r \in serving
  /\ in_flight' = in_flight_after_call(o)
  /\ serving' = serving \ {r}
  /\ responded' = Outcome(o)
  /\ UNCHANGED <<bulkhead_vars, ab_vars, csp_vars, flag_vars>>
  /\ UNCHANGED <<shutting_down, shutdown_pc, shutdown_result>>

shutdown_dispatch(r, p) ==
  StatusCheck(r, p) \/ RejectShutdown(r, p) \/ Accept(r, p)

\* shutdown(), lines 86-93, up to its first suspension: wait_for runs
\* _wait_for_drain in the calling task (`inline`), where it returns at once
\* when nothing is in flight, or makes a task for it
ShutdownCall ==
  /\ shutdown_pc = "idle"
  /\ shutting_down' = TRUE
  /\ IF inline /\ ~Draining
     THEN shutdown_pc' = "idle" /\ shutdown_result' = "drained"
     ELSE shutdown_pc' = "draining" /\ shutdown_result' = "none"
  /\ UNCHANGED <<bulkhead_vars, ab_vars, csp_vars, flag_vars>>
  /\ UNCHANGED <<in_flight, serving, responded>>

\* _wait_for_drain, lines 97-98: the loop finds nothing in flight
DrainObserved ==
  /\ shutdown_pc = "draining"
  /\ ~Draining
  /\ IF inline
     THEN shutdown_pc' = "idle" /\ shutdown_result' = "drained"
     ELSE shutdown_pc' = "drain_done" /\ shutdown_result' = shutdown_result
  /\ UNCHANGED <<bulkhead_vars, ab_vars, csp_vars, flag_vars>>
  /\ UNCHANGED <<shutting_down, in_flight, serving, responded>>

\* wait_for returns after the task of _wait_for_drain has ended
ShutdownReturn ==
  /\ shutdown_pc = "drain_done"
  /\ shutdown_pc' = "idle"
  /\ shutdown_result' = "drained"
  /\ UNCHANGED <<bulkhead_vars, ab_vars, csp_vars, flag_vars>>
  /\ UNCHANGED <<shutting_down, in_flight, serving, responded>>

\* mutant: no contextlib.suppress, the TimeoutError of wait_for leaves
\* shutdown()
ShutdownTimeout_raises ==
  /\ shutdown_pc = "draining"
  /\ shutdown_pc' = "idle"
  /\ shutdown_result' = "TimeoutError"
  /\ UNCHANGED <<bulkhead_vars, ab_vars, csp_vars, flag_vars>>
  /\ UNCHANGED <<shutting_down, in_flight, serving, responded>>
\* lines 89-93: wait_for times out and the TimeoutError is suppressed
ShutdownTimeout ==
  /\ shutdown_pc = "draining"
  /\ shutdown_pc' = "idle"
  /\ shutdown_result' = "timeout"
  /\ UNCHANGED <<bulkhead_vars, ab_vars, csp_vars, flag_vars>>
  /\ UNCHANGED <<shutting_down, in_flight, serving, responded>>

ShutdownNext ==
  \/ \E r \in Requests, p \in ShutdownPaths : StatusCheck(r, p)
  \/ \E r \in Requests, p \in ShutdownPaths : RejectShutdown(r, p)
  \/ \E r \in Requests, p \in ShutdownPaths : Accept(r, p)
  \/ \E r \in Requests, o \in Outcomes : Complete(r, o)
  \/ ShutdownCall
  \/ DrainObserved
  \/ ShutdownReturn
  \/ ShutdownTimeout

\* the shutdown middleware alone, with either wait_for
ShutdownInit ==
  /\ Init
  /\ config = CHOOSE c \in Configs : TRUE

ShutdownSpec == ShutdownInit /\ [][ShutdownNext]_vars

ShutdownTypeOK ==
  /\ shutting_down \in BOOLEAN
  /\ in_flight \in Int
  /\ serving \subseteq Requests
  /\ shutdown_pc \in {"idle", "draining", "drain_done"}
  /\ shutdown_result \in {"none", "drained", "timeout"}

\* C16: once shutdown() has been called is_shutting_down is true and stays
\* true, and a request that then arrives on a path other than check_path,
\* excluded or not, is answered with exactly the 503 "Service is shutting
\* down" with Connection: close; call_next is not invoked for it and the
\* in-flight count is what it was.
C16_RejectsAfterShutdown ==
  [][/\ ShutdownCall => shutting_down'
     /\ shutting_down => shutting_down'
     /\ \A r \in Requests, p \in ShutdownPaths \ {check_path} :
          (shutting_down /\ shutdown_dispatch(r, p))
          => /\ responded' =
                  [kind |-> "response", status_code |-> 503,
                   content |-> {<<"error", "true">>,
                                <<"message", "Service is shutting down">>},
                   headers |-> {<<"Connection", "close">>}]
             /\ serving' = serving
             /\ in_flight' = in_flight]_vars

\* C16 witness: a request has just been turned away while an earlier one is
\* still inside call_next and shutdown() is waiting for it.
C16_RejectedWhileDraining ==
  /\ shutting_down
  /\ shutdown_pc = "draining"
  /\ serving # {}
  /\ responded = ShuttingDownResponse

\* C17: when shutdown() has returned because _wait_for_drain found nothing in
\* flight, in_flight_requests is 0 and no request is inside call_next, then
\* and ever after.
C17_Drained ==
  (shutdown_pc = "idle" /\ shutdown_result = "drained")
  => /\ in_flight = 0
     /\ serving = {}
     /\ shutting_down

\* C17 witness: shutdown() has returned drained after waiting for a request
\* that was inside call_next, and that request's response was the last one
\* given.
C17_DrainedAfterWait ==
  /\ shutdown_pc = "idle"
  /\ shutdown_result = "drained"
  /\ responded = DownstreamResponse

\* ------------------------------------------------------------ ABTestMiddleware
\* A value or a weight of k stands for k / Scale: random.random() and
\* (hash_value % 10000) / 10000.0 are in [0, 1), so a value is in 0..Scale-1.
Scale == 2

Values == 0 .. (Scale - 1)

MaxExperiments == 2

\* names that experiments are configured with
ExperimentNames == {<<"a">>, <<"a", ":", "b">>}

\* variant lists that experiments are configured with
VariantLists == {<< <<"x">>, <<"y">> >>}

\* weights given to Experiment(): << >> is None, <<w>> the list w
WeightChoices == {<< >>, << <<1>> >>}

\* Experiment.__post_init__, lines 57-60
Experiment(name, variants, weights, enabled) ==
  [name |-> name,
   variants |-> variants,
   weights |-> IF weights = << >>
               THEN [i \in 1..Len(variants) |-> Scale \div Len(variants)]
               ELSE weights[1],
   enabled |-> enabled]

Experiments ==
  {Experiment(n, v, w, e) : n \in ExperimentNames, v \in VariantLists,
                            w \in WeightChoices, e \in BOOLEAN}

ExperimentLists == UNION {[1..k -> Experiments] : k \in 1..MaxExperiments}

\* _get_user_id: << >> when neither the header nor request.state names a user
UserIds == {<< >>, <<"u">>}

\* what a client may send as the ab_variants cookie without having got it
\* from the middleware: a word, or one name with one variant
ForgedCookies ==
  {<<"z">>} \cup {<<name, ":", variant>> : name, variant \in {"a", "z"}}

\* ---- dict, as the sequence of its items in insertion order
dict_keys(d) == {d[i][1] : i \in DOMAIN d}

dict_has(d, k) == k \in dict_keys(d)

dict_get(d, k) == d[CHOOSE i \in DOMAIN d : d[i][1] = k][2]

\* d[k] = v: a new key goes last, a known key keeps its place
dict_set(d, k, v) ==
  IF dict_has(d, k)
  THEN [i \in DOMAIN d |-> IF d[i][1] = k THEN <<k, v>> ELSE d[i]]
  ELSE Append(d, <<k, v>>)

\* d1 == d2 compares the items, not their order
dict_items(d) == {d[i] : i \in DOMAIN d}

\* ---- str
contains(s, c) == \E i \in DOMAIN s : s[i] = c

find(s, c) == CHOOSE i \in DOMAIN s : s[i] = c /\ \A j \in 1..(i - 1) : s[j] # c

\* s.split(c)
RECURSIVE split(_, _)
split(s, c) ==
  IF contains(s, c)
  THEN <<SubSeq(s, 1, find(s, c) - 1)>>
       \o split(SubSeq(s, find(s, c) + 1, Len(s)), c)
  ELSE <<s>>

\* s.split(c, 1), for s that contains c
split_once(s, c) ==
  <<SubSeq(s, 1, find(s, c) - 1), SubSeq(s, find(s, c) + 1, Len(s))>>

\* c.join(parts)
RECURSIVE join(_, _)
join(c, parts) ==
  IF parts = << >> THEN << >>
  ELSE IF Len(parts) = 1 THEN parts[1]
  ELSE parts[1] \o <<c>> \o join(c, Tail(parts))

\* ---- ABTestMiddleware
\* __init__, line 153: {exp.name: exp for exp in self.config.experiments}
RECURSIVE experiments_by_name(_)
experiments_by_name(exps) ==
  IF exps = << >> THEN EmptyDict
  ELSE LET exp == exps[Len(exps)]
       IN dict_set(experiments_by_name(SubSeq(exps, 1, Len(exps) - 1)),
                   exp.name, exp)

\* _assign_variant, line 175
hash_input(name, user_id) == name \o <<":">> \o user_id

HashInputs(exps) ==
  {hash_input(exps[i].name, u) : i \in DOMAIN exps, u \in UserIds \ {<< >>}}

\* _assign_variant, lines 173-181: the value the variant is selected by
value_for(experiment, user_id, random) ==
  IF user_id # << >> /\ sticky
  THEN md5[hash_input(experiment.name, user_id)]
  ELSE random

\* _assign_variant, lines 184-189: the loop from its i-th round on
RECURSIVE select(_, _, _, _)
select(experiment, value, i, cumulative) ==
  IF i > Len(experiment.variants) \/ i > Len(experiment.weights)
  THEN experiment.variants[Len(experiment.variants)]
  ELSE IF value < cumulative + experiment.weights[i]
       THEN experiment.variants[i]
       ELSE select(experiment, value, i + 1,
                   cumulative + experiment.weights[i])

assign_variant(experiment, user_id, random) ==
  select(experiment, value_for(experiment, user_id, random), 1, 0)

\* _parse_cookie, lines 194-197: the loop over the parts
RECURSIVE parse_parts(_, _)
parse_parts(parts, assignments) ==
  IF parts = << >> THEN assignments
  ELSE LET part == Head(parts)
       IN parse_parts(
            Tail(parts),
            IF contains(part, ":")
            THEN dict_set(assignments, split_once(part, ":")[1],
                          split_once(part, ":")[2])
            ELSE assignments)

parse_cookie(cookie) == parse_parts(split(cookie, "|"), EmptyDict)

format_cookie(assignments) ==
  join("|", [i \in DOMAIN assignments |->
               assignments[i][1] \o <<":">> \o assignments[i][2]])

\* _get_assignments, lines 215-217: the loop from the i-th experiment on;
\* random[i] is what random.random() gives if it is called for that one
RECURSIVE assign_missing(_, _, _, _, _)
assign_missing(by_name, i, assignments, user_id, random) ==
  IF i > Len(by_name) THEN assignments
  ELSE LET name == by_name[i][1]
           experiment == by_name[i][2]
       IN assign_missing(
            by_name, i + 1,
            IF experiment.enabled /\ ~dict_has(assignments, name)
            THEN dict_set(assignments, name,
                          assign_variant(experiment, user_id, random[i]))
            ELSE assignments,
            user_id, random)

\* request.cookies.get(self.config.cookie_name, "")
cookie_of(sent) == IF sent = NoCookie THEN << >> ELSE sent[1]

get_assignments(sent, user_id, random) ==
  assign_missing(experiments_by_name(experiments), 1,
                 IF cookie_of(sent) # << >>
                 THEN parse_cookie(cookie_of(sent))
                 ELSE EmptyDict,
                 user_id, random)

\* what the client can send: nothing, the cookie it was issued, or its own
CookiesToSend ==
  {NoCookie} \cup {<<c>> : c \in ForgedCookies}
  \cup {<<ab_issued[i].value>> : i \in DOMAIN ab_issued}

\* dispatch, lines 224-225
ABSkip(p) ==
  /\ ab_pc = "idle"
  /\ should_skip(p)
  /\ ab_pc' = "passing"
  /\ UNCHANGED <<bulkhead_vars, shutdown_vars, csp_vars, flag_vars>>
  /\ UNCHANGED <<experiments, sticky, md5,
                 ab_as_issued, ab_variants, ab_issued>>

\* dispatch, line 225: call_next ends, with a response or an exception
ABPassed ==
  /\ ab_pc = "passing"
  /\ ab_pc' = "idle"
  /\ UNCHANGED <<bulkhead_vars, shutdown_vars, csp_vars, flag_vars>>
  /\ UNCHANGED <<experiments, sticky, md5,
                 ab_as_issued, ab_variants, ab_issued>>

\* dispatch, lines 228-235: up to call_next
ABRequest(p, sent, user_id, random) ==
  /\ ab_pc = "idle"
  /\ ~should_skip(p)
  /\ ab_as_issued' = (ab_issued # << >> /\ sent = <<ab_issued[1].value>>)
  /\ ab_variants' = get_assignments(sent, user_id, random)
  /\ ab_pc' = "handling"
  /\ UNCHANGED <<bulkhead_vars, shutdown_vars, csp_vars, flag_vars>>
  /\ UNCHANGED <<experiments, sticky, md5,
                 ab_issued>>

\* dispatch, lines 235-249: call_next returns and the cookie is set
ABRespond ==
  /\ ab_pc = "handling"
  /\ ab_issued' = <<[value |-> format_cookie(ab_variants),
                     assignments |-> ab_variants]>>
  /\ ab_pc' = "idle"
  /\ ab_as_issued' = FALSE
  /\ ab_variants' = EmptyDict
  /\ UNCHANGED <<bulkhead_vars, shutdown_vars, csp_vars, flag_vars>>
  /\ UNCHANGED <<experiments, sticky, md5>>

\* dispatch, lines 235, 250-251: call_next raises, no cookie is set
ABRaise ==
  /\ ab_pc = "handling"
  /\ ab_pc' = "idle"
  /\ ab_as_issued' = FALSE
  /\ ab_variants' = EmptyDict
  /\ UNCHANGED <<bulkhead_vars, shutdown_vars, csp_vars, flag_vars>>
  /\ UNCHANGED <<experiments, sticky, md5,
                 ab_issued>>

ab_dispatch(p, sent, user_id, random) ==
  \/ ABSkip(p)
  \/ ABRequest(p, sent, user_id, random)

ABNext ==
  \/ \E p \in {"/a", "/health"}, sent \in CookiesToSend, user_id \in UserIds,
        random \in [1..MaxExperiments -> Values] :
       ab_dispatch(p, sent, user_id, random)
  \/ ABPassed
  \/ ABRespond
  \/ ABRaise

\* ABTestMiddleware(app, experiments=..., config=ABTestConfig(sticky=...))
ABTestInit ==
  /\ experiments \in ExperimentLists
  /\ sticky \in BOOLEAN
  /\ md5 \in [IF sticky THEN HashInputs(experiments) ELSE {} -> Values]
  /\ NoRequestYet

\* the A/B middleware alone, for one client
ABInit ==
  /\ BulkheadInit
  /\ config = CHOOSE c \in Configs : TRUE
  /\ inline
  /\ GracefulShutdownInit
  /\ ABTestInit
  /\ CSPReportDefault
  /\ FeatureFlagDefault

ABSpec == ABInit /\ [][ABNext]_vars

ABTypeOK ==
  /\ ab_pc \in {"idle", "handling", "passing"}
  /\ ab_as_issued \in BOOLEAN
  /\ Len(ab_issued) <= 1
  /\ \A i, j \in DOMAIN ab_variants :
       ab_variants[i][1] = ab_variants[j][1] => i = j

\* C18: a request that carries the ab_variants cookie exactly as the previous
\* response set it gets, for every experiment that response put in the
\* cookie, the variant the previous request had; and parsing the formatted
\* assignments gives the assignments back.
C18_Sticky ==
  (ab_pc = "handling" /\ ab_as_issued)
  => /\ \A name \in dict_keys(ab_issued[1].assignments) :
          /\ dict_has(ab_variants, name)
          /\ dict_get(ab_variants, name)
               = dict_get(ab_issued[1].assignments, name)
     /\ dict_items(parse_cookie(format_cookie(ab_issued[1].assignments)))
          = dict_items(ab_issued[1].assignments)

\* C19: the variant a handler sees for an enabled configured experiment is
\* one of that experiment's variants, whatever the request carried.
C19_VariantConfigured ==
  ab_pc = "handling"
  => \A i \in DOMAIN experiments_by_name(experiments) :
       LET experiment == experiments_by_name(experiments)[i][2]
       IN experiment.enabled
          => /\ dict_has(ab_variants, experiment.name)
             /\ \E k \in DOMAIN experiment.variants :
                  dict_get(ab_variants, experiment.name)
                    = experiment.variants[k]

\* C27: in every state in_flight_requests is the number of accepted requests
\* inside call_next, so never negative and 0 when there is none; accepting a
\* request adds one before call_next, the end of call_next takes one off
\* whether it returned, raised or was cancelled, and a request that is
\* answered without call_next leaves the count as it was.
C27_InFlightExact ==
  /\ [](in_flight = Cardinality(serving) /\ in_flight >= 0)
  /\ [][\A r \in Requests :
          /\ \A p \in ShutdownPaths :
               /\ Accept(r, p)
                  => in_flight' = in_flight + 1 /\ serving' = serving \cup {r}
               /\ (StatusCheck(r, p) \/ RejectShutdown(r, p))
                  => in_flight' = in_flight /\ serving' = serving
          /\ \A o \in Outcomes :
               Complete(r, o)
               => in_flight' = in_flight - 1 /\ serving' = serving \ {r}]_vars

\* C27 witness: the call_next of one request has just been cancelled during
\* a shutdown; the two other requests are still inside theirs and counted.
C27_CancelledCounted ==
  /\ responded = CancelledError
  /\ shutting_down
  /\ in_flight = 2
  /\ Cardinality(serving) = 2

\* shutdown() is not left waiting: the timer of wait_for fires, the loop of
\* _wait_for_drain wakes every 0.1 s, and a task that can run is run.  Nothing
\* is asked of the requests in flight.
ShutdownFairness ==
  /\ WF_vars(ShutdownTimeout)
  /\ WF_vars(ShutdownReturn)

ShutdownLiveSpec == ShutdownInit /\ [][ShutdownNext]_vars /\ ShutdownFairness

\* C28: a shutdown() that has been called returns, whatever the requests in
\* flight do; it returns "drained" with nothing in flight or "timeout",
\* never an exception; the timeout leaves the requests in flight where they
\* are, and is_shutting_down is true from the call on.
C28_ShutdownTerminates ==
  /\ (shutdown_pc # "idle") ~> (shutdown_pc = "idle")
  /\ [][/\ ShutdownCall => shutting_down'
        /\ (shutdown_pc' = "idle" /\ (shutdown_pc # "idle" \/ ShutdownCall))
           => /\ shutting_down'
              /\ \/ shutdown_result' = "drained" /\ in_flight' = 0
                 \/ /\ shutdown_result' = "timeout"
                    /\ in_flight' = in_flight /\ serving' = serving
        /\ shutting_down => shutting_down']_vars

\* C28 witness: shutdown() has returned by its timeout with two requests
\* still inside call_next.
C28_ForcedShutdown ==
  /\ shutdown_pc = "idle"
  /\ shutdown_result = "timeout"
  /\ shutting_down
  /\ Cardinality(serving) = 2
  /\ in_flight = 2

\* ------------------------------------------------------ CSPReportMiddleware
\* src/fastMiddleware/csp_report.py

\* bounds of the CSP report model
MaxStored == 2
MaxReports == 4

\* CSPReportConfig, lines 32-35: the fields are not validated
CSPReportConfigs ==
  [store_reports : BOOLEAN, max_stored : 0 .. MaxStored,
   log_reports : BOOLEAN]

report_uri == "/_csp-report"

\* request bodies, one of each kind the handler tells apart:
\*   report          {"blocked-uri": "x"}
\*   wrapped_report  {"csp-report": {"blocked-uri": "x"}}
\*   wrapped_scalar  {"csp-report": "x"}
\*   array           [1]
\*   null            null
\*   truncated       {
\*   empty           no bytes
\*   not_utf8        the byte 0xff
Bodies ==
  {"report", "wrapped_report", "wrapped_scalar", "array", "null",
   "truncated", "empty", "not_utf8"}

\* the bodies that are not JSON documents
NotJSON == {"truncated", "empty", "not_utf8"}

\* json.loads(body), line 89: the type of the value, or the exception
json_loads(body) ==
  CASE body \in {"truncated", "empty"} -> "JSONDecodeError"
    [] body = "not_utf8" -> "UnicodeDecodeError"
    [] body = "array" -> "list"
    [] body = "null" -> "NoneType"
    [] OTHER -> "dict"

\* report.get("csp-report", report), line 90: the type of violation
violation(body) ==
  IF body = "wrapped_scalar" THEN "str" ELSE "dict"

CSPNoContent == [kind |-> "response", status_code |-> 204, error |-> ""]
InvalidJSON ==
  [kind |-> "response", status_code |-> 400, error |-> "Invalid JSON"]
CSPRaised(e) == [kind |-> "raised", status_code |-> 0, error |-> e]
CSPCallNext == [kind |-> "call_next", status_code |-> 0, error |-> ""]

\* lst[start:], the slice of line 110
slice_from(lst, start) ==
  LET n == Len(lst)
      b == IF start < 0
             THEN (IF n + start < 0 THEN 0 ELSE n + start)
             ELSE (IF start > n THEN n ELSE start)
  IN  SubSeq(lst, b + 1, n)

\* lines 102-110: the report is appended and the list is cut
reports_after_append(id) ==
  LET appended == Append(reports, id) IN
  IF Len(appended) > csp_config.max_stored
    THEN slice_from(appended, 0 - csp_config.max_stored)
    ELSE appended

\* _handle_report, lines 85-119: what the request is given
handle_report_result(body) ==
  LET loaded == json_loads(body) IN
  CASE loaded = "JSONDecodeError" -> InvalidJSON
    [] loaded = "UnicodeDecodeError" -> CSPRaised("UnicodeDecodeError")
    [] loaded # "dict" /\ ~(loaded \in {"JSONDecodeError", "UnicodeDecodeError"})
         -> CSPRaised("AttributeError")
    [] OTHER ->
         IF csp_config.log_reports /\ violation(body) # "dict"
           THEN CSPRaised("AttributeError")
           ELSE CSPNoContent

\* dispatch, lines 127-128, and _handle_report: a POST to report_uri
CSPReport(body) ==
  /\ csp_received < MaxReports
  /\ csp_responded' = handle_report_result(body)
  /\ IF csp_responded'.status_code = 204
       THEN /\ csp_received' = csp_received + 1
            /\ reports' = IF csp_config.store_reports
                            THEN reports_after_append(csp_received + 1)
                            ELSE reports
       ELSE UNCHANGED <<csp_received, reports>>
  /\ UNCHANGED <<bulkhead_vars, shutdown_vars, ab_vars, flag_vars>>
  /\ UNCHANGED <<csp_config, csp_cleared_at>>

\* dispatch, lines 124-125 and 131: any other request goes to call_next
CSPPass(method, path) ==
  /\ ~(path = report_uri /\ method = "POST")
  /\ csp_responded' = CSPCallNext
  /\ UNCHANGED <<bulkhead_vars, shutdown_vars, ab_vars, flag_vars>>
  /\ UNCHANGED <<csp_config, reports, csp_received, csp_cleared_at>>

\* clear_reports, lines 81-83
clear_reports ==
  /\ reports' = << >>
  /\ csp_cleared_at' = csp_received
  /\ UNCHANGED <<bulkhead_vars, shutdown_vars, ab_vars, flag_vars>>
  /\ UNCHANGED <<csp_config, csp_received, csp_responded>>

\* get_reports, lines 77-79
get_reports == reports

CSPNext ==
  \/ \E body \in Bodies : CSPReport(body)
  \/ \E method \in {"GET", "POST"}, path \in {report_uri, "/a"} :
       CSPPass(method, path)
  \/ clear_reports

CSPInit ==
  /\ BulkheadInit
  /\ config = CHOOSE c \in Configs : TRUE
  /\ inline
  /\ GracefulShutdownInit
  /\ ABTestDefault
  /\ FeatureFlagDefault
  /\ \E c \in CSPReportConfigs : CSPReportNew(c)

CSPSpec == CSPInit /\ [][CSPNext]_vars

CSPTypeOK ==
  /\ csp_config \in CSPReportConfigs
  /\ reports \in Seq(1 .. MaxReports)
  /\ csp_received \in 0 .. MaxReports
  /\ csp_cleared_at \in 0 .. csp_received
  /\ csp_responded.kind \in {"none", "response", "raised", "call_next"}

\* the reports taken in since the last clear_reports(), the newest
\* max_stored of them, oldest first
LatestReports ==
  LET lo == IF csp_received - csp_config.max_stored > csp_cleared_at
              THEN csp_received - csp_config.max_stored
              ELSE csp_cleared_at
  IN  [i \in 1 .. (csp_received - lo) |-> lo + i]

\* C29: with store_reports on, the store never holds more than max_stored
\* reports and holds the most recently received ones in arrival order;
\* clear_reports() empties it; a POST whose body is not valid JSON is
\* answered 400 and leaves the store as it was; with store_reports off the
\* store stays empty.
C29_BoundedStore ==
  /\ [](IF csp_config.store_reports
          THEN /\ Len(get_reports) <= csp_config.max_stored
               /\ get_reports = LatestReports
          ELSE get_reports = << >>)
  /\ [][/\ clear_reports => reports' = << >>
        /\ \A body \in NotJSON :
             CSPReport(body) =>
               /\ csp_responded'.status_code = 400
               /\ reports' = reports]_vars

\* ---------------------------------------------------- FeatureFlagMiddleware
\* src/fastMiddleware/feature_flag.py

\* bound of the feature flag model: pairs in one X-Feature-Flags header
MaxPairs == 2

\* the names of the flags, strings as sequences of characters
FlagNames == {<<"a">>, <<"b">>}

\* dict[str, bool] over FlagNames, as the sequence of its items
FlagDicts ==
  {<< >>}
  \cup {<< <<k, v>> >> : k \in FlagNames, v \in BOOLEAN}
  \cup {<< <<<<"a">>, v>>, <<<<"b">>, w>> >> : v, w \in BOOLEAN}

\* FeatureFlagConfig, lines 82-86, override_header left at X-Feature-Flags;
\* flag_provider is given by the dict it returns for the request
FeatureFlagConfigs ==
  [flags : FlagDicts, header_overrides : BOOLEAN, flag_provider : FlagDicts]

\* what a client writes after the "=" of a pair
ValueTexts == {<<"1">>, <<"0">>, <<"O", "n">>, << >>}

\* one pair of the header as the client composes it: the flag, then with
\* eq the "=" and the text, with pad a blank around each part
HeaderEntries ==
  [key : FlagNames, text : ValueTexts, pad : BOOLEAN, eq : {TRUE}]
  \cup [key : FlagNames, text : {<< >>}, pad : {FALSE}, eq : {FALSE}]

RECURSIVE SeqsUpTo(_, _)
SeqsUpTo(S, n) ==
  IF n = 0 THEN {<< >>}
  ELSE LET shorter == SeqsUpTo(S, n - 1) IN
       shorter \cup {Append(s, x) : s \in shorter, x \in S}

\* the headers a client sends; << >> is a request without the header
Headers == SeqsUpTo(HeaderEntries, MaxPairs)

padded(s, pad) == IF pad THEN <<" ">> \o s \o <<" ">> ELSE s

\* the text of one pair
pair_text(e) ==
  IF e.eq THEN padded(e.key, e.pad) \o <<"=">> \o padded(e.text, e.pad)
  ELSE e.key

\* the value of the X-Feature-Flags header
header_of(entries) == join(",", [i \in DOMAIN entries |-> pair_text(entries[i])])

\* ---- str
RECURSIVE lstrip(_)
lstrip(s) == IF s # << >> /\ Head(s) = " " THEN lstrip(Tail(s)) ELSE s

RECURSIVE rstrip(_)
rstrip(s) ==
  IF s # << >> /\ s[Len(s)] = " " THEN rstrip(SubSeq(s, 1, Len(s) - 1))
  ELSE s

\* s.strip()
strip(s) == rstrip(lstrip(s))

UpperCase ==
  ("E" :> "e") @@ ("N" :> "n") @@ ("O" :> "o") @@ ("R" :> "r")
  @@ ("S" :> "s") @@ ("T" :> "t") @@ ("U" :> "u") @@ ("Y" :> "y")

\* s.lower()
lower(s) ==
  [i \in DOMAIN s |-> IF s[i] \in DOMAIN UpperCase THEN UpperCase[s[i]]
                      ELSE s[i]]

\* d.update(e)
RECURSIVE dict_update(_, _)
dict_update(d, e) ==
  IF e = << >> THEN d
  ELSE dict_update(dict_set(d, e[1][1], e[1][2]), Tail(e))

\* ---- FeatureFlagMiddleware
\* line 162: ("true", "1", "yes", "on")
TrueValues ==
  {<<"t", "r", "u", "e">>, <<"1">>, <<"y", "e", "s">>, <<"o", "n">>}

\* _parse_header_overrides, lines 156-162: the loop over the pairs
RECURSIVE parse_pairs(_, _)
parse_pairs(raw_pairs, overrides) ==
  IF raw_pairs = << >> THEN overrides
  ELSE LET pair == strip(Head(raw_pairs)) IN
       parse_pairs(
         Tail(raw_pairs),
         IF contains(pair, "=")
         THEN LET kv == split_once(pair, "=")
                  key == strip(kv[1])
                  value == lower(strip(kv[2]))
              IN  dict_set(overrides, key, value \in TrueValues)
         ELSE overrides)

\* _parse_header_overrides, lines 152-164
parse_header_overrides(header) == parse_pairs(split(header, ","), EmptyDict)

\* mutant: the header is applied whether or not header_overrides is set
get_flags_ungated(header) ==
  LET static == flag_config.flags
      dynamic == IF flag_config.flag_provider # << >>
                   THEN dict_update(static, flag_config.flag_provider)
                   ELSE static
  IN  IF header # << >>
        THEN dict_update(dynamic, parse_header_overrides(header))
        ELSE dynamic
\* _get_flags, lines 166-183, for a request with this X-Feature-Flags header
get_flags(header) ==
  LET static == flag_config.flags
      dynamic == IF flag_config.flag_provider # << >>
                   THEN dict_update(static, flag_config.flag_provider)
                   ELSE static
  IN  IF flag_config.header_overrides /\ header # << >>
        THEN dict_update(dynamic, parse_header_overrides(header))
        ELSE dynamic

\* dispatch, line 214: [k for k, v in flags.items() if v]
enabled(flags) ==
  LET on == SelectSeq(flags, LAMBDA item : item[2]) IN
  [i \in DOMAIN on |-> on[i][1]]

\* dispatch, lines 198-199
FlagSkip(p) ==
  /\ flag_pc = "idle"
  /\ should_skip(p)
  /\ flag_pc' = "passing"
  /\ UNCHANGED <<bulkhead_vars, shutdown_vars, ab_vars, csp_vars>>
  /\ UNCHANGED <<flag_config, flag_request, feature_flags, features_enabled>>

\* dispatch, line 199: call_next ends, with a response or an exception
FlagPassed ==
  /\ flag_pc = "passing"
  /\ flag_pc' = "idle"
  /\ UNCHANGED <<bulkhead_vars, shutdown_vars, ab_vars, csp_vars>>
  /\ UNCHANGED <<flag_config, flag_request, feature_flags, features_enabled>>

\* dispatch, lines 201-211: up to call_next
FlagRequest(p, entries) ==
  /\ flag_pc = "idle"
  /\ ~should_skip(p)
  /\ flag_request' = entries
  /\ feature_flags' = get_flags(header_of(entries))
  /\ flag_pc' = "handling"
  /\ UNCHANGED <<bulkhead_vars, shutdown_vars, ab_vars, csp_vars>>
  /\ UNCHANGED <<flag_config, features_enabled>>

\* dispatch, lines 211-220: call_next returns, the enabled flags are named
FlagRespond ==
  /\ flag_pc = "handling"
  /\ features_enabled' = join(",", enabled(feature_flags))
  /\ flag_pc' = "idle"
  /\ flag_request' = << >>
  /\ feature_flags' = << >>
  /\ UNCHANGED <<bulkhead_vars, shutdown_vars, ab_vars, csp_vars>>
  /\ UNCHANGED flag_config

\* dispatch, lines 211, 219-220: call_next raises, there is no response
FlagRaise ==
  /\ flag_pc = "handling"
  /\ features_enabled' = << >>
  /\ flag_pc' = "idle"
  /\ flag_request' = << >>
  /\ feature_flags' = << >>
  /\ UNCHANGED <<bulkhead_vars, shutdown_vars, ab_vars, csp_vars>>
  /\ UNCHANGED flag_config

flag_dispatch(p, entries) ==
  \/ FlagSkip(p)
  \/ FlagRequest(p, entries)

FlagNext ==
  \/ \E p \in {"/a", "/health"}, entries \in Headers : flag_dispatch(p, entries)
  \/ FlagPassed
  \/ FlagRespond
  \/ FlagRaise

FlagInit ==
  /\ BulkheadInit
  /\ config = CHOOSE c \in Configs : TRUE
  /\ inline
  /\ GracefulShutdownInit
  /\ ABTestDefault
  /\ CSPReportDefault
  /\ \E c \in FeatureFlagConfigs : FeatureFlagNew(c)

FlagSpec == FlagInit /\ [][FlagNext]_vars

FlagTypeOK ==
  /\ flag_config \in FeatureFlagConfigs
  /\ flag_pc \in {"idle", "passing", "handling"}
  /\ flag_request \in Headers
  /\ dict_keys(feature_flags) \subseteq FlagNames
  /\ \A i \in DOMAIN feature_flags : feature_flags[i][2] \in BOOLEAN

\* the header names the flag: a pair "flag=text" is in it
Named(entries, k) == \E i \in DOMAIN entries : entries[i].key = k /\ entries[i].eq

\* the text the header gives for the flag, in its last pair for it
HeaderText(entries, k) ==
  LET last == CHOOSE i \in DOMAIN entries :
                /\ entries[i].key = k /\ entries[i].eq
                /\ \A j \in DOMAIN entries :
                     entries[j].key = k /\ entries[j].eq => j <= i
  IN  entries[last].text

\* the texts that switch a flag on: true, 1, yes, on, in any case
SaysTrue(text) == text \in {<<"1">>, <<"O", "n">>}

\* the flag is exposed with this value
Exposes(k, v) == dict_has(feature_flags, k) /\ dict_get(feature_flags, k) = v

\* the value of the flag without the header: the provider's, else the static
WithoutHeader(k) ==
  IF dict_has(flag_config.flag_provider, k)
    THEN Exposes(k, dict_get(flag_config.flag_provider, k))
  ELSE IF dict_has(flag_config.flags, k)
    THEN Exposes(k, dict_get(flag_config.flags, k))
  ELSE ~dict_has(feature_flags, k)

\* C30: with header_overrides off, the flags a handler sees are those that
\* any other X-Feature-Flags header, or none, would have given; with
\* header_overrides on, a flag named in the header has the header's value
\* whatever the provider and the static flags say; any other flag has the
\* provider's value if the provider gives one, else the static value.
C30_OverrideGating ==
  flag_pc = "handling" =>
    /\ ~flag_config.header_overrides =>
         \A other \in SeqsUpTo(HeaderEntries, 1) :
           dict_items(get_flags(header_of(other))) = dict_items(feature_flags)
    /\ \A k \in FlagNames :
         IF flag_config.header_overrides /\ Named(flag_request, k)
           THEN Exposes(k, SaysTrue(HeaderText(flag_request, k)))
           ELSE WithoutHeader(k)

\* the header switches on a flag that the provider and the static flags have
\* off, next to a flag where the provider overrules the static value
C30_HeaderOverProvider ==
  /\ flag_pc = "handling"
  /\ flag_config.header_overrides
  /\ flag_config.flags = << <<<<"a">>, FALSE>>, <<<<"b">>, FALSE>> >>
  /\ flag_config.flag_provider = << <<<<"a">>, FALSE>>, <<<<"b">>, TRUE>> >>
  /\ flag_request =
       <<[key |-> <<"a">>, text |-> <<"O", "n">>, pad |-> TRUE, eq |-> TRUE]>>
  /\ Exposes(<<"a">>, TRUE)
  /\ Exposes(<<"b">>, TRUE)
====
